---------------------------- MODULE Spec2Model ----------------------------
(***************************************************************************)
(* A model of the OpenGL-Journey demo: the Camera class (src/src/Camera.cpp)*)
(* and the frame loop that drives it (src/src/main.cpp).                   *)
(*                                                                         *)
(* Numbers.  Every camera field is a C++ float.  A float is modelled by a  *)
(* binary floating-point format of the same shape as IEEE binary32 but     *)
(* scaled down: MantBits bits of precision (binary32: 24), a smallest      *)
(* positive value of 2^-FracBits (binary32: 2^-149), a largest finite      *)
(* value of (2^MantBits - 1) * 2^MaxExp smallest steps, the two infinities *)
(* and NaN.  Every arithmetic operation is the exact result rounded to the *)
(* nearest representable value, ties to even, as the hardware does it.     *)
(* A finite value is held as its integer count of smallest steps.  The     *)
(* sign of zero is not modelled.                                           *)
(***************************************************************************)
EXTENDS Integers, Sequences, FiniteSets, TLC

\* ------------------------------------------------------------- bounds

\* Bits of precision of the scaled-down float.
MantBits == 7
\* The smallest positive float is 2^-FracBits; 1.0 is 2^FracBits steps.
FracBits == 10
\* The largest finite float is (2^MantBits - 1) * 2^MaxExp steps.
MaxExp == 9
\* Camera operations applied in one behaviour of CamSpec.
MaxOps == 2

Unit == 2 ^ FracBits
MaxFin == (2 ^ MantBits - 1) * (2 ^ MaxExp)

\* ------------------------------------------------------------- floats

\* A float is held as an integer: a finite value as its count of smallest
\* steps (-MaxFin..MaxFin), the infinities and NaN as values beyond MaxFin.
\* No arithmetic is done on the three special values themselves.
Fin(n) == n
PInf == MaxFin + 1
NInf == -(MaxFin + 1)
NaN == MaxFin + 2

Abs(n) == IF n < 0 THEN -n ELSE n
Sgn(n) == IF n < 0 THEN -1 ELSE IF n > 0 THEN 1 ELSE 0

IsNaN(x) == x = NaN
IsInf(x) == x = PInf \/ x = NInf
IsFin(x) == Abs(x) <= MaxFin
InfOf(s) == IF s < 0 THEN NInf ELSE PInf

\* The number of low bits a magnitude q loses to fit MantBits bits.
RECURSIVE ShiftOf(_)
ShiftOf(q) == IF q < 2 ^ MantBits THEN 0 ELSE 1 + ShiftOf(q \div 2)

\* The rational num/den (den > 0, in smallest steps) rounded to the nearest
\* float, ties to even; a result beyond the largest finite float is infinite.
\* The natural a over step, rounded to the nearest integer, ties to even.
RoundQuot(a, step) ==
    IF 2 * (a % step) > step \/ (2 * (a % step) = step /\ (a \div step) % 2 = 1)
    THEN (a \div step) + 1
    ELSE a \div step

\* The float of sign s and magnitude mag (a multiple of its own last place).
Signed(s, mag) == IF mag > MaxFin THEN InfOf(s) ELSE Fin(Sgn(s) * mag)

\* num/den rounded at the binary place e.
RNAt(num, den, e) == Signed(num, RoundQuot(Abs(num), den * (2 ^ e)) * (2 ^ e))

RN(num, den) == RNAt(num, den, ShiftOf(Abs(num) \div den))

FNeg(x) == IF IsNaN(x) THEN NaN ELSE -x

FAdd(x, y) ==
    IF IsNaN(x) \/ IsNaN(y) THEN NaN
    ELSE IF IsInf(x) /\ IsInf(y) THEN (IF x = y THEN x ELSE NaN)
    ELSE IF IsInf(x) THEN x
    ELSE IF IsInf(y) THEN y
    ELSE RN(x + y, 1)

FSub(x, y) == FAdd(x, FNeg(y))

\* The float r times 2^s (s >= 0): exact, or infinite beyond the largest float.
ScaleUp(r, s) ==
    IF ~IsFin(r) \/ r = 0 THEN r
    ELSE IF s > 30 THEN InfOf(r)
    ELSE IF Abs(r) > MaxFin \div (2 ^ s) THEN InfOf(r)
    ELSE Fin(r * (2 ^ s))

\* The product of two finite floats a and b (in smallest steps), rounded.  Each
\* is split into its significand and its power of two, so that the exact
\* product of the significands stays a small integer.
MulSplit(a, b, ea, eb) ==
    IF ea + eb <= FracBits
    THEN RN((a \div (2 ^ ea)) * (b \div (2 ^ eb)), 2 ^ (FracBits - ea - eb))
    ELSE ScaleUp(RN((a \div (2 ^ ea)) * (b \div (2 ^ eb)), 1), ea + eb - FracBits)

MulFin(a, b) ==
    IF (a < 0) = (b < 0)
    THEN MulSplit(Abs(a), Abs(b), ShiftOf(Abs(a)), ShiftOf(Abs(b)))
    ELSE FNeg(MulSplit(Abs(a), Abs(b), ShiftOf(Abs(a)), ShiftOf(Abs(b))))

FMul(x, y) ==
    IF IsNaN(x) \/ IsNaN(y) THEN NaN
    ELSE IF IsInf(x) \/ IsInf(y)
         THEN (IF x = 0 \/ y = 0 THEN NaN ELSE InfOf(Sgn(x) * Sgn(y)))
    ELSE MulFin(x, y)

FDiv(x, y) ==
    IF IsNaN(x) \/ IsNaN(y) THEN NaN
    ELSE IF IsInf(x) THEN (IF IsInf(y) THEN NaN
                           ELSE InfOf(Sgn(x) * (IF y < 0 THEN -1 ELSE 1)))
    ELSE IF IsInf(y) THEN Fin(0)
    ELSE IF y = 0 THEN (IF x = 0 THEN NaN ELSE InfOf(x))
    ELSE RN(Sgn(y) * x * Unit, Abs(y))

\* floor(sqrt(m)) of a natural number.
RECURSIVE ISqrt(_)
ISqrt(m) ==
    IF m < 2 THEN m
    ELSE LET s == 2 * ISqrt(m \div 4)
         IN  IF (s + 1) * (s + 1) <= m THEN s + 1 ELSE s

\* std::sqrt: the square root rounded to the nearest float (never a tie).
\* Whether sqrt(m) lies above the midpoint of q * 2^e and (q + 1) * 2^e.
SqrtUp(m, q, e) ==
    IF e = 0 THEN m > q * q + q
    ELSE m > (q * q + q) * (4 ^ e) + 4 ^ (e - 1)

SqrtRound(m, q, e) == Fin((IF SqrtUp(m, q, e) THEN q + 1 ELSE q) * (2 ^ e))

SqrtAt(m, e) == SqrtRound(m, ISqrt(m \div (4 ^ e)), e)

FSqrt(x) ==
    IF IsNaN(x) \/ x < 0 THEN NaN
    ELSE IF IsInf(x) THEN PInf
    ELSE SqrtAt(x * Unit, ShiftOf(ISqrt(x * Unit)))


\* ------------------------------------------------------- trigonometry

\* Angles are integers in tenths of a degree: mouseLook turns by
\* -deltaX * sensitivity degrees with sensitivity 0.1f.  Sines and cosines
\* are computed in fixed point (scale 2^14) and then rounded to a float.
TrigScale == 2 ^ 14

\* Tenths of a degree (0..450) to radians, scaled.
Rad(a) == (a * 51472) \div 1800

\* One Horner step of the Taylor series: 1 - x2 * t / k, scaled.
Horner(x2, t, k) == TrigScale - (((x2 * t) \div TrigScale) \div k)

SinPoly(x) ==
    LET x2 == (x * x) \div TrigScale
    IN  (x * Horner(x2, Horner(x2, Horner(x2, TrigScale, 42), 20), 6)) \div TrigScale

CosPoly(x) ==
    LET x2 == (x * x) \div TrigScale
    IN  Horner(x2, Horner(x2, Horner(x2, Horner(x2, TrigScale, 56), 30), 12), 2)

\* Sine of a first-quadrant angle (0..900 tenths of a degree), scaled.
SinQ(a) == IF a <= 450 THEN SinPoly(Rad(a)) ELSE CosPoly(Rad(900 - a))

SinScaled(a) ==
    LET b == a % 3600
    IN  IF b <= 900 THEN SinQ(b)
        ELSE IF b <= 1800 THEN SinQ(1800 - b)
        ELSE IF b <= 2700 THEN -SinQ(b - 1800)
        ELSE -SinQ(3600 - b)

FSin(a) == RN(SinScaled(a) * Unit, TrigScale)
FCos(a) == RN(SinScaled(a + 900) * Unit, TrigScale)

\* ------------------------------------------------------------ vectors

One == Fin(Unit)
Zero == Fin(0)

Vec(x, y, z) == <<x, y, z>>
VAdd(a, b) == <<FAdd(a[1], b[1]), FAdd(a[2], b[2]), FAdd(a[3], b[3])>>
VSub(a, b) == <<FSub(a[1], b[1]), FSub(a[2], b[2]), FSub(a[3], b[3])>>
VScale(a, f) == <<FMul(a[1], f), FMul(a[2], f), FMul(a[3], f)>>
VNeg(a) == <<FNeg(a[1]), FNeg(a[2]), FNeg(a[3])>>

\* glm::dot: the three products summed left to right.
Dot(a, b) == FAdd(FAdd(FMul(a[1], b[1]), FMul(a[2], b[2])), FMul(a[3], b[3]))

\* glm::cross.
Cross(a, b) ==
    << FSub(FMul(a[2], b[3]), FMul(b[2], a[3])),
       FSub(FMul(a[3], b[1]), FMul(b[3], a[1])),
       FSub(FMul(a[1], b[2]), FMul(b[1], a[2])) >>

\* glm::inversesqrt: 1 / sqrt(x).
InverseSqrt(x) == FDiv(One, FSqrt(x))

\* glm::normalize: v * inversesqrt(dot(v, v)).
Normalize(v) == VScale(v, InverseSqrt(Dot(v, v)))

\* glm::rotate(mat4(1.0f), angle, v): the rotation about normalize(v), as its
\* three columns (the fourth row and column stay those of the identity).
Identity == << <<One, Zero, Zero>>, <<Zero, One, Zero>>, <<Zero, Zero, One>> >>

\* The matrix Rotate of glm::rotate, from the cosine c, the sine s, the unit
\* axis and temp = (1 - c) * axis.
RotateMatrix(c, s, axis, temp) ==
    << << FAdd(c, FMul(temp[1], axis[1])),
          FAdd(FMul(temp[1], axis[2]), FMul(s, axis[3])),
          FSub(FMul(temp[1], axis[3]), FMul(s, axis[2])) >>,
       << FSub(FMul(temp[2], axis[1]), FMul(s, axis[3])),
          FAdd(c, FMul(temp[2], axis[2])),
          FAdd(FMul(temp[2], axis[3]), FMul(s, axis[1])) >>,
       << FAdd(FMul(temp[3], axis[1]), FMul(s, axis[2])),
          FSub(FMul(temp[3], axis[2]), FMul(s, axis[1])),
          FAdd(c, FMul(temp[3], axis[3])) >> >>

\* One column of the result: m[0] * r[0] + m[1] * r[1] + m[2] * r[2].
RotateCol(m, r) ==
    VAdd(VAdd(VScale(m[1], r[1]), VScale(m[2], r[2])), VScale(m[3], r[3]))

RotateResult(m, R) == << RotateCol(m, R[1]), RotateCol(m, R[2]), RotateCol(m, R[3]) >>

RotateAbout(c, s, axis) ==
    RotateResult(Identity, RotateMatrix(c, s, axis, VScale(axis, FSub(One, c))))

Rotate(angle, v) == RotateAbout(FCos(angle), FSin(angle), Normalize(v))

\* vec3(m * vec4(v, 0.0f)): glm sums (m[0]*x + m[1]*y) + (m[2]*z + m[3]*w).
MatMulDir(m, v) ==
    VAdd(VAdd(VScale(m[1], v[1]), VScale(m[2], v[2])),
         VAdd(VScale(m[3], v[3]), VScale(<<Zero, Zero, One>>, Zero)))


\* glm::lookAt(eye, center, up), right-handed: the view matrix as its side,
\* up and forward axes (rows of the rotation block; the forward row is stored
\* negated) and its translation column.
LookAtResult(s, u, f, eye) ==
    [s |-> s, u |-> u, f |-> f,
     t |-> <<FNeg(Dot(s, eye)), FNeg(Dot(u, eye)), Dot(f, eye)>>]

LookAtSide(f, s, eye) == LookAtResult(s, Cross(s, f), f, eye)

LookAtForward(f, eye, up) == LookAtSide(f, Normalize(Cross(f, up)), eye)

LookAt(eye, center, up) == LookAtForward(Normalize(VSub(center, eye)), eye, up)

\* ------------------------------------------------------------- Camera

\* The float nearest to the decimal num/den, as a literal such as 0.1f is.
Lit(num, den) == RN(num * Unit, den)

\* Camera::Camera(eye, viewDirection, upVector): the fields as given.
CameraExplicit(eye, viewDirection, upVector) ==
    [eye |-> eye, viewDirection |-> viewDirection, upVector |-> upVector]

\* Camera::Camera().
CameraDefault ==
    [eye |-> <<Lit(0, 1), Lit(0, 1), Lit(5, 1)>>,
     viewDirection |-> <<Lit(0, 1), Lit(0, 1), Lit(-1, 1)>>,
     upVector |-> <<Lit(0, 1), Lit(1, 1), Lit(0, 1)>>]

GetViewMatrix(c) == LookAt(c.eye, VAdd(c.eye, c.viewDirection), c.upVector)

\* glm::radians(-deltaX * sensitivity), in tenths of a degree.
YawAngle(deltaX) == -deltaX

\* Variants of mouseLook, each with one plausible defect, used to show that
\* the properties below depend on what mouseLook does: a yaw about the world
\* Y axis instead of upVector; an angle that also counts deltaY; and a
\* rotation whose result is stored without normalising it.
MouseLookAboutWorldY(c, deltaX, deltaY) ==
    LET yawRotation == Rotate(YawAngle(deltaX), <<Zero, One, Zero>>)
    IN  [c EXCEPT !.viewDirection =
                      Normalize(MatMulDir(yawRotation, c.viewDirection))]

MouseLookCountingDeltaY(c, deltaX, deltaY) ==
    LET yawRotation == Rotate(YawAngle(deltaX + deltaY), c.upVector)
    IN  [c EXCEPT !.viewDirection =
                      Normalize(MatMulDir(yawRotation, c.viewDirection))]

MouseLookUnnormalised(c, deltaX, deltaY) ==
    LET yawRotation == Rotate(YawAngle(deltaX), c.upVector)
    IN  [c EXCEPT !.viewDirection = MatMulDir(yawRotation, c.viewDirection)]

MouseLook(c, deltaX, deltaY) ==
    LET yawRotation == Rotate(YawAngle(deltaX), c.upVector)
    IN  [c EXCEPT !.viewDirection =
                      Normalize(MatMulDir(yawRotation, c.viewDirection))]

\* Variants of the moves with one plausible defect each: a forward move along
\* the facing, a backward move with the sign of the forward one, and a left
\* move along the camera's own side axis.
MoveForwardAlongFacing(c, speed) ==
    [c EXCEPT !.eye = VAdd(@, VScale(c.viewDirection, speed))]

MoveBackwardSubtracting(c, speed) == [c EXCEPT !.eye[3] = FSub(@, speed)]

MoveLeftAlongSide(c, speed) ==
    [c EXCEPT !.eye = VSub(@, VScale(Normalize(Cross(c.viewDirection, c.upVector)),
                                     speed))]

MoveForward(c, speed) == [c EXCEPT !.eye[3] = FSub(@, speed)]
MoveBackward(c, speed) == [c EXCEPT !.eye[3] = FAdd(@, speed)]
MoveLeft(c, speed) == [c EXCEPT !.eye[1] = FSub(@, speed)]
MoveRight(c, speed) == [c EXCEPT !.eye[1] = FAdd(@, speed)]


\* -------------------------------------------------------------- state

VARIABLES
    cam,          \* the Camera object (gApp.mCamera in the frame loop)
    ctor,         \* which constructor built cam: "default" or "explicit"
    nOps,         \* camera operations applied so far (CamSpec)
    last,         \* the last camera operation, its arguments, cam before it
    last2,        \* the camera operation before that one
    view,         \* <<m>> once getViewMatrix has returned m, <<>> before
    pc,           \* where main / MainLoop / Input stands
    mQuit,        \* gApp.mQuit
    relMode,      \* SDL's relative mouse mode (the mouse capture)
    frameSafe,    \* MainLoop's local frameSafe
    queue,        \* SDL's event queue
    held,         \* the keys SDL_GetKeyboardState reports as down
    uniformFound, \* whether the linked program has the uniform uTransform
    tick,         \* iterations of the while loop started so far
    posted,       \* events posted so far
    frameTime,    \* the frameTime measured by the last pacing step
    delay,        \* the SDL_Delay of the last pacing step (0: none)
    warnings,     \* "Frame rate has dropped" lines printed so far
    overran,      \* whether some tick measured frameTime > gFrameDuration
    quitTick,     \* the tick in which SDL_QUIT was first handled (0: none)
    tickTrace,    \* what the current tick has done so far, in order
    uView,        \* the view matrix PreDraw last uploaded
    drawn,        \* the view matrix the last draw call used
    lastStep,     \* the last step the program took
    pre,          \* cam, relMode and mQuit before the last step
    cleaned       \* whether CleanUp has run

camVars == <<cam, ctor, nOps, last, last2, view>>
loopVars == <<pc, mQuit, relMode, frameSafe, queue, held, uniformFound, tick,
              posted, frameTime, delay, warnings, overran, quitTick,
              tickTrace, uView, drawn, lastStep, pre, cleaned>>
vars == <<cam, ctor, nOps, last, last2, view, pc, mQuit, relMode, frameSafe,
          queue, held, uniformFound, tick, posted, frameTime, delay, warnings,
          overran, quitTick, tickTrace, uView, drawn, lastStep, pre, cleaned>>

NoOp == [op |-> "none", deltaX |-> 0, deltaY |-> 0, speed |-> Zero,
         before |-> CameraDefault]

\* An SDL_Event: its type and, where the type has them, the key and the
\* relative motion.
Ev(type, sym, xrel, yrel) == [type |-> type, sym |-> sym, xrel |-> xrel, yrel |-> yrel]

NoEvent == Ev("none", "", 0, 0)

\* What a step starts from: the camera, the capture, the flags, and the event
\* the step handles (NoEvent if it handles none).
Snapshot(e) ==
    [cam |-> cam, relMode |-> relMode, mQuit |-> mQuit, frameSafe |-> frameSafe,
     event |-> e]

NoSnapshot ==
    [cam |-> CameraDefault, relMode |-> FALSE, mQuit |-> FALSE,
     frameSafe |-> TRUE, event |-> NoEvent]


\* -------------------------------------------- the camera on its own

\* The (eye, viewDirection, upVector) triples the explicit constructor is
\* given: unit vectors and not, a far eye, a facing parallel to up, zero
\* vectors, a facing too short for its squared length to be representable
\* and one too long for it.
V3(x, y, z) == <<Lit(x, 1), Lit(y, 1), Lit(z, 1)>>
ExplicitInputs ==
    { <<V3(0, 0, 5), <<Lit(0, 1), Lit(3, 5), Lit(4, 5)>>, V3(0, 1, 0)>>,
      <<<<Lit(1, 3), Lit(-2, 1), Lit(60, 1)>>, V3(1, 0, 0), V3(0, 0, 1)>>,
      <<V3(0, 0, 5), V3(0, 3, 4), V3(0, 1, 0)>>,
      <<V3(0, 0, 5), V3(0, 0, -1), V3(0, 2, 0)>>,
      <<V3(0, 0, 5), V3(0, 1, 0), V3(0, 1, 0)>>,
      <<V3(0, 0, 5), V3(0, 0, 0), V3(0, 1, 0)>>,
      <<V3(0, 0, 5), V3(0, 0, -1), V3(0, 0, 0)>>,
      <<V3(0, 0, 5), <<Fin(1), Fin(0), Fin(0)>>, V3(0, 1, 0)>>,
      <<V3(0, 0, 5), <<Fin(0), Fin(0), Fin(MaxFin)>>, V3(0, 1, 0)>> }

\* The arguments the operations are called with.
DeltaXs == {-300, 0, 450}
DeltaYs == {0, 7}
Speeds == {Lit(1, 10), Lit(0, 1), Lit(-40, 1)}

LoopIdle ==
    /\ pc = "idle"
    /\ mQuit = FALSE
    /\ relMode = FALSE
    /\ frameSafe = TRUE
    /\ queue = <<>>
    /\ held = {}
    /\ uniformFound = TRUE
    /\ tick = 0
    /\ posted = 0
    /\ frameTime = 0
    /\ delay = 0
    /\ warnings = 0
    /\ overran = FALSE
    /\ quitTick = 0
    /\ tickTrace = <<>>
    /\ uView = <<>>
    /\ drawn = <<>>
    /\ lastStep = "none"
    /\ pre = NoSnapshot
    /\ cleaned = FALSE

CamInit ==
    /\ \/ cam = CameraDefault /\ ctor = "default"
       \/ /\ ctor = "explicit"
          /\ \E i \in ExplicitInputs : cam = CameraExplicit(i[1], i[2], i[3])
    /\ nOps = 0
    /\ last = NoOp
    /\ last2 = NoOp
    /\ view = <<>>
    /\ LoopIdle

\* One call of a camera operation: cam becomes c, the call is recorded.
Called(op, deltaX, deltaY, speed, c) ==
    /\ nOps < MaxOps
    /\ nOps' = nOps + 1
    /\ cam' = c
    /\ last' = [op |-> op, deltaX |-> deltaX, deltaY |-> deltaY,
                speed |-> speed, before |-> cam]
    /\ last2' = last
    /\ UNCHANGED ctor
    /\ UNCHANGED loopVars

CallMouseLook ==
    \E deltaX \in DeltaXs, deltaY \in DeltaYs :
        /\ Called("mouseLook", deltaX, deltaY, Zero, MouseLook(cam, deltaX, deltaY))
        /\ UNCHANGED view

CallMoveForward ==
    \E speed \in Speeds :
        /\ Called("moveForward", 0, 0, speed, MoveForward(cam, speed))
        /\ UNCHANGED view

CallMoveBackward ==
    \E speed \in Speeds :
        /\ Called("moveBackward", 0, 0, speed, MoveBackward(cam, speed))
        /\ UNCHANGED view

CallMoveLeft ==
    \E speed \in Speeds :
        /\ Called("moveLeft", 0, 0, speed, MoveLeft(cam, speed))
        /\ UNCHANGED view

CallMoveRight ==
    \E speed \in Speeds :
        /\ Called("moveRight", 0, 0, speed, MoveRight(cam, speed))
        /\ UNCHANGED view

CallGetViewMatrix ==
    /\ Called("getViewMatrix", 0, 0, Zero, cam)
    /\ view' = <<GetViewMatrix(cam)>>

CamNext ==
    \/ CallMouseLook
    \/ CallMoveForward
    \/ CallMoveBackward
    \/ CallMoveLeft
    \/ CallMoveRight
    \/ CallGetViewMatrix

CamSpec == CamInit /\ [][CamNext]_vars


\* ------------------------------------------------------ the frame loop

gTargetFPS == 60
gFrameDuration == 1000 \div gTargetFPS

\* Iterations of MainLoop's while loop in one behaviour.
MaxTicks == 2
\* Events the environment posts in one behaviour.
MaxPosted == 2

\* The events the environment posts: window close, mouse motion, Escape
\* pressed, and two events Input has no branch for.
EventInputs ==
    { Ev("SDL_QUIT", "", 0, 0),
      Ev("SDL_MOUSEMOTION", "", 450, 7),
      Ev("SDL_KEYDOWN", "SDLK_ESCAPE", 0, 0),
      Ev("SDL_KEYDOWN", "SDLK_w", 0, 0),
      Ev("SDL_KEYUP", "SDLK_ESCAPE", 0, 0) }

\* The sets of movement keys held down at once.
HeldInputs == { {}, {"W"}, {"W", "S", "A", "D"} }

\* The frame times MainLoop measures, in milliseconds.
FrameTimes == { gFrameDuration - 1, gFrameDuration, gFrameDuration + 1 }

\* main() at the call of MainLoop(): setup is done, gApp is as constructed.
Init ==
    /\ cam = CameraDefault
    /\ ctor = "default"
    /\ nOps = 0
    /\ last = NoOp
    /\ last2 = NoOp
    /\ view = <<>>
    /\ pc = "MainLoop"
    /\ mQuit = FALSE
    /\ relMode = FALSE
    /\ frameSafe = TRUE
    /\ queue = <<>>
    /\ held = {}
    /\ uniformFound \in BOOLEAN
    /\ tick = 0
    /\ posted = 0
    /\ frameTime = 0
    /\ delay = 0
    /\ warnings = 0
    /\ overran = FALSE
    /\ quitTick = 0
    /\ tickTrace = <<>>
    /\ uView = <<>>
    /\ drawn = <<>>
    /\ lastStep = "none"
    /\ pre = NoSnapshot
    /\ cleaned = FALSE

\* Every step of the program records its name and the state it started from.
StepOn(name, e) ==
    /\ lastStep' = name
    /\ pre' = Snapshot(e)
    /\ UNCHANGED <<ctor, nOps, last, last2, view, uniformFound>>

Step(name) == StepOn(name, NoEvent)

\* MainLoop, lines 381-386: capture the mouse, frameSafe = true.
\* SDL_SetRelativeMouseMode is taken to succeed, here and in Input.
EnterMainLoop ==
    /\ pc = "MainLoop"
    /\ relMode' = TRUE
    /\ frameSafe' = TRUE
    /\ pc' = "while"
    /\ Step("EnterMainLoop")
    /\ UNCHANGED <<cam, mQuit, queue, held, tick, posted, frameTime, delay,
                   warnings, overran, quitTick, tickTrace, uView, drawn, cleaned>>

\* while (!gApp.mQuit): another tick starts; the locals of the loop body are
\* new ones.
LoopEnter ==
    /\ pc = "while"
    /\ ~ mQuit
    /\ tick < MaxTicks
    /\ tick' = tick + 1
    /\ tickTrace' = <<>>
    /\ frameTime' = 0
    /\ delay' = 0
    /\ pc' = "SDL_PollEvent"
    /\ Step("LoopEnter")
    /\ UNCHANGED <<cam, mQuit, relMode, frameSafe, queue, held, posted,
                   warnings, overran, quitTick, uView, drawn, cleaned>>

\* while (!gApp.mQuit): the loop ends and MainLoop returns to main.
LoopExit ==
    /\ pc = "while"
    /\ mQuit
    /\ pc' = "CleanUp"
    /\ Step("LoopExit")
    /\ UNCHANGED <<cam, mQuit, relMode, frameSafe, queue, held, tick, posted,
                   frameTime, delay, warnings, overran, quitTick, tickTrace,
                   uView, drawn, cleaned>>

\* What Input's event loop does to mQuit, the capture and the camera for one
\* polled event e.
\* Variants with one plausible defect each: mQuit assigned from every event,
\* and a motion event applied whatever the capture.
QuitFromEachEvent(e) == e.type = "SDL_QUIT"

LooksAtAnyMotion(e) == e.type = "SDL_MOUSEMOTION"

QuitAfter(e) == IF e.type = "SDL_QUIT" THEN TRUE ELSE mQuit

LooksAt(e) == e.type = "SDL_MOUSEMOTION" /\ relMode

CamAfter(e) == IF LooksAt(e) THEN MouseLook(cam, e.xrel, e.yrel) ELSE cam

Toggles(e) ==
    /\ e.type # "SDL_QUIT"
    /\ e.type # "SDL_MOUSEMOTION"
    /\ e.type = "SDL_KEYDOWN" /\ e.sym = "SDLK_ESCAPE"

ModeAfter(e) == IF Toggles(e) THEN ~ relMode ELSE relMode

\* Input, lines 278-307: SDL_PollEvent returned an event; its branch runs.
PollEvent ==
    /\ pc = "SDL_PollEvent"
    /\ queue # <<>>
    /\ LET e == Head(queue)
       IN  /\ queue' = Tail(queue)
           /\ mQuit' = QuitAfter(e)
           /\ quitTick' = IF e.type = "SDL_QUIT" /\ quitTick = 0 THEN tick ELSE quitTick
           /\ cam' = CamAfter(e)
           /\ relMode' = ModeAfter(e)
           /\ tickTrace' = tickTrace \o <<e.type>> \o
                              (IF LooksAt(e) THEN <<"mouseLook">> ELSE <<>>)
           /\ StepOn("PollEvent", e)
    /\ pc' = "SDL_PollEvent"
    /\ UNCHANGED <<frameSafe, held, tick, posted, frameTime, delay, warnings,
                   overran, uView, drawn, cleaned>>

\* Input, line 278: SDL_PollEvent returned 0; the event loop ends.
PollEmpty ==
    /\ pc = "SDL_PollEvent"
    /\ queue = <<>>
    /\ pc' = "SDL_GetKeyboardState"
    /\ Step("PollEmpty")
    /\ UNCHANGED <<cam, mQuit, relMode, frameSafe, queue, held, tick, posted,
                   frameTime, delay, warnings, overran, quitTick, tickTrace,
                   uView, drawn, cleaned>>

\* Input, lines 309-328: the four held-key tests, in the order W, S, A, D.
Speed == Lit(1, 10)

\* The camera calls the four tests make for the keyboard state, in order.
KeyCalls(state) ==
    (IF "W" \in state THEN <<"moveForward">> ELSE <<>>) \o
    (IF "S" \in state THEN <<"moveBackward">> ELSE <<>>) \o
    (IF "A" \in state THEN <<"moveLeft">> ELSE <<>>) \o
    (IF "D" \in state THEN <<"moveRight">> ELSE <<>>)

CallMove(c, call) ==
    CASE call = "moveForward" -> MoveForward(c, Speed)
      [] call = "moveBackward" -> MoveBackward(c, Speed)
      [] call = "moveLeft" -> MoveLeft(c, Speed)
      [] call = "moveRight" -> MoveRight(c, Speed)

RECURSIVE CallMoves(_, _)
CallMoves(c, calls) ==
    IF calls = <<>> THEN c ELSE CallMoves(CallMove(c, Head(calls)), Tail(calls))

CamAfterKeys(c, state) == CallMoves(c, KeyCalls(state))

HeldKeys ==
    /\ pc = "SDL_GetKeyboardState"
    /\ cam' = CamAfterKeys(cam, held)
    /\ tickTrace' = tickTrace \o KeyCalls(held)
    /\ pc' = "PreDraw"
    /\ Step("HeldKeys")
    /\ UNCHANGED <<mQuit, relMode, frameSafe, queue, held, tick, posted,
                   frameTime, delay, warnings, overran, quitTick, uView, drawn,
                   cleaned>>

\* A variant of PreDraw with one plausible defect: the view matrix it uploads
\* is that of the camera before this tick's held-key movement.
PreDrawBeforeKeys ==
    /\ pc = "PreDraw"
    /\ uniformFound
    /\ uView' = <<GetViewMatrix(pre.cam)>>
    /\ tickTrace' = tickTrace \o <<"getViewMatrix">>
    /\ pc' = "Draw"
    /\ Step("PreDraw")
    /\ UNCHANGED <<cam, mQuit, relMode, frameSafe, queue, held, tick, posted,
                   frameTime, delay, warnings, overran, quitTick, drawn, cleaned>>

\* PreDraw, lines 331-361: the view matrix is queried and uploaded.  Of the
\* uploaded product perspective * viewSpace * globalTransform only viewSpace
\* depends on the camera; the spin angle and the projection are left out.
PreDraw ==
    /\ pc = "PreDraw"
    /\ uniformFound
    /\ uView' = <<GetViewMatrix(cam)>>
    /\ tickTrace' = tickTrace \o <<"getViewMatrix">>
    /\ pc' = "Draw"
    /\ Step("PreDraw")
    /\ UNCHANGED <<cam, mQuit, relMode, frameSafe, queue, held, tick, posted,
                   frameTime, delay, warnings, overran, quitTick, drawn, cleaned>>

\* PreDraw, lines 349-366: the uniform is missing; exit(1) ends the process.
PreDrawExit ==
    /\ pc = "PreDraw"
    /\ ~ uniformFound
    /\ tickTrace' = tickTrace \o <<"getViewMatrix">>
    /\ pc' = "exit(1)"
    /\ Step("PreDrawExit")
    /\ UNCHANGED <<cam, mQuit, relMode, frameSafe, queue, held, tick, posted,
                   frameTime, delay, warnings, overran, quitTick, uView, drawn,
                   cleaned>>

\* Draw, lines 369-377: the draw call uses the uniform last uploaded.
Draw ==
    /\ pc = "Draw"
    /\ drawn' = uView
    /\ tickTrace' = tickTrace \o <<"draw">>
    /\ pc' = "SDL_GL_SwapWindow"
    /\ Step("Draw")
    /\ UNCHANGED <<cam, mQuit, relMode, frameSafe, queue, held, tick, posted,
                   frameTime, delay, warnings, overran, quitTick, uView, cleaned>>

\* MainLoop, line 398: the frame is presented.
SwapWindow ==
    /\ pc = "SDL_GL_SwapWindow"
    /\ tickTrace' = tickTrace \o <<"present">>
    /\ pc' = "pace"
    /\ Step("SwapWindow")
    /\ UNCHANGED <<cam, mQuit, relMode, frameSafe, queue, held, tick, posted,
                   frameTime, delay, warnings, overran, quitTick, uView, drawn,
                   cleaned>>

\* MainLoop, lines 405-413, for a measured frame time ft.
DelayFor(ft) == IF ft < gFrameDuration THEN gFrameDuration - ft ELSE 0

\* A variant of the warning test with one plausible defect: frameSafe is not
\* consulted.
WarnsOnEachOverrun(ft, safe) == ft > gFrameDuration

Warns(ft, safe) == ~ (ft < gFrameDuration) /\ safe /\ ft > gFrameDuration

\* MainLoop, lines 400-413: the frame time is measured; delay or warn.
Pace ==
    /\ pc = "pace"
    /\ \E ft \in FrameTimes :
          /\ frameTime' = ft
          /\ delay' = DelayFor(ft)
          /\ warnings' = IF Warns(ft, frameSafe) THEN warnings + 1 ELSE warnings
          /\ frameSafe' = IF Warns(ft, frameSafe) THEN FALSE ELSE frameSafe
          /\ overran' = (overran \/ ft > gFrameDuration)
    /\ tickTrace' = tickTrace \o <<"pace">>
    /\ pc' = "while"
    /\ Step("Pace")
    /\ UNCHANGED <<cam, mQuit, relMode, queue, held, tick, posted, quitTick,
                   uView, drawn, cleaned>>

\* main, lines 443-445: CleanUp runs and main returns.
CleanUp ==
    /\ pc = "CleanUp"
    /\ cleaned' = TRUE
    /\ pc' = "return"
    /\ Step("CleanUp")
    /\ UNCHANGED <<cam, mQuit, relMode, frameSafe, queue, held, tick, posted,
                   frameTime, delay, warnings, overran, quitTick, tickTrace,
                   uView, drawn>>

\* The environment: the user or the window system posts an event.  Only
\* SDL_PollEvent reads the queue, so an event that arrives anywhere between
\* the end of one tick's polling and the next loop test is posted at that
\* loop test.
PostEvent ==
    /\ pc \in {"while", "SDL_PollEvent"}
    /\ posted < MaxPosted
    /\ \E e \in EventInputs : queue' = Append(queue, e)
    /\ posted' = posted + 1
    /\ UNCHANGED <<camVars, pc, mQuit, relMode, frameSafe, held, uniformFound,
                   tick, frameTime, delay, warnings, overran, quitTick,
                   tickTrace, uView, drawn, lastStep, pre, cleaned>>

\* The environment: keys go down or up.  SDL refreshes the array that
\* SDL_GetKeyboardState returns only while it pumps events, in SDL_PollEvent.
KeyChange ==
    /\ pc = "SDL_PollEvent"
    /\ \E k \in HeldInputs : k # held /\ held' = k
    /\ UNCHANGED <<camVars, pc, mQuit, relMode, frameSafe, queue, uniformFound,
                   tick, posted, frameTime, delay, warnings, overran, quitTick,
                   tickTrace, uView, drawn, lastStep, pre, cleaned>>

Next ==
    \/ EnterMainLoop
    \/ LoopEnter
    \/ LoopExit
    \/ PollEvent
    \/ PollEmpty
    \/ HeldKeys
    \/ PreDraw
    \/ PreDrawExit
    \/ Draw
    \/ SwapWindow
    \/ Pace
    \/ CleanUp
    \/ PostEvent
    \/ KeyChange

Spec == Init /\ [][Next]_vars

\* The program is one thread that always takes its next step: weak fairness
\* of every step.  For the three steps that compute with floats the fairness
\* condition is written out, with the step's guard for its enabling condition
\* (each of them changes pc or queue, so it is enabled exactly when its guard
\* holds).
FairSpec ==
    /\ Spec
    /\ WF_vars(EnterMainLoop)
    /\ WF_vars(LoopEnter)
    /\ WF_vars(LoopExit)
    /\ WF_vars(PollEmpty)
    /\ WF_vars(PreDrawExit)
    /\ WF_vars(Draw)
    /\ WF_vars(SwapWindow)
    /\ WF_vars(Pace)
    /\ WF_vars(CleanUp)
    /\ ([]<>(~ (pc = "SDL_PollEvent" /\ queue # <<>>)) \/ []<><<PollEvent>>_vars)
    /\ ([]<>(pc # "SDL_GetKeyboardState") \/ []<><<HeldKeys>>_vars)
    /\ ([]<>(~ (pc = "PreDraw" /\ uniformFound)) \/ []<><<PreDraw>>_vars)

\* ------------------------------------------- measures used by the claims

\* The spacing of the floats at magnitude n (in smallest steps).
Ulp(n) == 2 ^ ShiftOf(n)
\* The spacing of the floats just above 1.0 (the machine epsilon).
Eps == Unit \div (2 ^ (MantBits - 1))
\* The smallest normal float: below it a float has fewer than MantBits bits.
MinNormal == 2 ^ (MantBits - 1)

\* v has unit length within rounding: its squared length is within 2 Eps of 1.
NearUnit(v) ==
    LET d == Dot(v, v)
    IN  IsFin(d) /\ Abs(d - Unit) <= 2 * Eps

\* The squared length of v is a normal float: not zero, not below the normal
\* range, not infinite, not NaN.
Normalisable(v) ==
    LET d == Dot(v, v)
    IN  IsFin(d) /\ d >= MinNormal

\* a and b are parallel, or one of them has no direction at all.
Parallel(a, b) == ~ Normalisable(Cross(a, b))

IsMove(op) == op \in {"moveForward", "moveBackward", "moveLeft", "moveRight"}

\* The index of the eye component a move changes, and the sign of the change.
MoveAxis(op) == IF op \in {"moveLeft", "moveRight"} THEN 1 ELSE 3
MoveSign(op) == IF op \in {"moveForward", "moveLeft"} THEN -1 ELSE 1
Inverse(op) ==
    CASE op = "moveForward" -> "moveBackward"
      [] op = "moveBackward" -> "moveForward"
      [] op = "moveLeft" -> "moveRight"
      [] op = "moveRight" -> "moveLeft"
      [] OTHER -> "none"

\* The last two calls were a move by d and then the opposite move by d.
RoundTrip == IsMove(last2.op) /\ last.op = Inverse(last2.op) /\ last.speed = last2.speed

\* ------------------------------------------------------------ C1

\* C1: moveLeft and moveRight change only eye.x, moveForward and moveBackward
\* only eye.z (the other eye components, viewDirection and upVector keep their
\* values); mouseLook leaves eye unchanged, for every deltaX and deltaY, in
\* every camera state the operations can be called in.
C1_FrameEffect ==
    /\ IsMove(last.op) =>
          /\ \A i \in {1, 2, 3} \ {MoveAxis(last.op)} : cam.eye[i] = last.before.eye[i]
          /\ cam.viewDirection = last.before.viewDirection
          /\ cam.upVector = last.before.upVector
    /\ last.op = "mouseLook" => cam.eye = last.before.eye

\* A move changed its own component, after an earlier mouseLook had turned
\* the facing away from the Z axis.
C1_Witness ==
    /\ last.op = "moveLeft"
    /\ cam.eye[1] # last.before.eye[1]
    /\ last2.op = "mouseLook"
    /\ IsFin(cam.viewDirection[1]) /\ cam.viewDirection[1] # 0

\* ------------------------------------------------------------ C2

\* C2 as claimed: a move by d followed by the opposite move by d leaves eye
\* exactly the value it had before the two calls (stated here only for round
\* trips whose position in between is finite).
C2_ExactRoundTrip ==
    (RoundTrip /\ IsFin(last.before.eye[MoveAxis(last.op)])) =>
        cam.eye = last2.before.eye

\* C2 amended: a move by d followed by the opposite move by d leaves the
\* other two eye components exactly as they were and returns the moved one to
\* within one spacing of the floats at magnitude |eye| + |d| (floating-point
\* tolerance), provided the position in between did not overflow.
C2_RoundTripWithinUlp ==
    RoundTrip =>
        LET i == MoveAxis(last.op)
            z == last2.before.eye[i]
            d == last.speed
        IN  /\ \A j \in {1, 2, 3} \ {i} : cam.eye[j] = last2.before.eye[j]
            /\ IsFin(last.before.eye[i]) =>
                  /\ IsFin(cam.eye[i])
                  /\ Abs(cam.eye[i] - z) <= Ulp(Abs(z) + Abs(d))

\* A round trip with d # 0 that really moved the camera in between and came
\* back to the exact starting position.
C2_Witness ==
    /\ RoundTrip
    /\ last.speed # 0
    /\ last.before.eye # last2.before.eye
    /\ cam.eye = last2.before.eye

\* ------------------------------------------------------------ C3

\* C3: whatever the facing, moveForward(s) sets eye.z to the float difference
\* eye.z - s, moveBackward(s) to eye.z + s, moveLeft(s) sets eye.x to eye.x - s
\* and moveRight(s) to eye.x + s: the offset is s along a fixed world axis and
\* does not depend on viewDirection.
C3_WorldAxes ==
    IsMove(last.op) =>
        LET i == MoveAxis(last.op)
        IN  cam.eye[i] = (IF MoveSign(last.op) < 0
                          THEN FSub(last.before.eye[i], last.speed)
                          ELSE FAdd(last.before.eye[i], last.speed))

\* moveForward by s # 0 right after a mouseLook that turned the facing.
C3_Witness ==
    /\ last.op = "moveForward"
    /\ last.speed # 0
    /\ last2.op = "mouseLook"
    /\ last.before.viewDirection # last2.before.viewDirection
    /\ IsFin(last.before.viewDirection[1]) /\ last.before.viewDirection[1] # 0
    /\ cam.eye[3] # last.before.eye[3]

\* ------------------------------------------------------------ C4

\* The component of facing along up changed by at most Eps in the last call.
DotKept ==
    LET d0 == Dot(last.before.viewDirection, last.before.upVector)
        d1 == Dot(cam.viewDirection, cam.upVector)
    IN  IsFin(d0) /\ IsFin(d1) /\ Abs(d1 - d0) <= Eps

\* C4 as claimed (read with a rounding tolerance): for every camera whose up
\* is a unit vector, mouseLook keeps the component of facing along up.
C4_DotKeptForUnitUp ==
    (last.op = "mouseLook" /\ NearUnit(last.before.upVector)) => DotKept

\* C4 amended: mouseLook never changes upVector; for every camera whose up
\* and facing are both unit vectors it keeps the component of facing along up
\* (up to rounding); and a default-constructed camera keeps facing exactly
\* perpendicular to up, so never parallel to it, under every sequence of
\* mouseLook and move calls.
C4_YawOnly ==
    /\ last.op = "mouseLook" => cam.upVector = last.before.upVector
    /\ (/\ last.op = "mouseLook"
        /\ NearUnit(last.before.upVector)
        /\ NearUnit(last.before.viewDirection)) => DotKept
    /\ ctor = "default" =>
          /\ Dot(cam.viewDirection, cam.upVector) = 0
          /\ ~ Parallel(cam.viewDirection, cam.upVector)

\* A mouseLook that turned a unit facing with a component along up.
C4_Witness ==
    /\ last.op = "mouseLook"
    /\ last.deltaX # 0
    /\ NearUnit(last.before.upVector)
    /\ NearUnit(last.before.viewDirection)
    /\ Dot(last.before.viewDirection, last.before.upVector) > 0
    /\ cam.viewDirection # last.before.viewDirection

\* ------------------------------------------------------------ C5

\* C5: the camera mouseLook(deltaX, deltaY) produces is the same for every
\* deltaY: the state after the call equals the state the call would have
\* produced with any other deltaY, in particular for deltaX = 0.
C5_DeltaYIgnored ==
    last.op = "mouseLook" =>
        \A dy \in DeltaYs \ {last.deltaY} :
            cam = MouseLook(last.before, last.deltaX, dy)

\* mouseLook(0, dy) with dy # 0 was called on a camera with a usable facing.
C5_Witness ==
    /\ last.op = "mouseLook"
    /\ last.deltaX = 0
    /\ last.deltaY # 0
    /\ Normalisable(cam.viewDirection)

\* ------------------------------------------------------------ C6

\* What getViewMatrix builds its axes from can be normalised.
ViewUsable(c) ==
    LET f == VSub(VAdd(c.eye, c.viewDirection), c.eye)
    IN  Normalisable(f) /\ Normalisable(Cross(Normalize(f), c.upVector))

\* C6 as claimed (read with a rounding tolerance): for every camera, the
\* stored facing has unit length after any mouseLook, and the axes
\* getViewMatrix uses have unit length.
C6_AlwaysUnit ==
    /\ last.op = "mouseLook" => NearUnit(cam.viewDirection)
    /\ last.op = "getViewMatrix" => (NearUnit(view[1].f) /\ NearUnit(view[1].s))

\* C6 amended: after a mouseLook on a camera whose facing and up both have a
\* squared length that is a normal float (not zero, not underflowing, not
\* overflowing) the stored facing has unit length up to rounding; the
\* constructors do not normalise, but getViewMatrix (glm::lookAt) renormalises
\* what it uses: its forward, side and up axes have unit length up to rounding
\* whenever (eye + facing) - eye and its cross product with up have such a
\* squared length; and a default-constructed camera keeps facing and up at
\* unit length under every sequence of mouseLook and move calls.
C6_UnitWhenUsable ==
    /\ (/\ last.op = "mouseLook"
        /\ Normalisable(last.before.viewDirection)
        /\ Normalisable(last.before.upVector)) => NearUnit(cam.viewDirection)
    /\ (last.op = "getViewMatrix" /\ ViewUsable(cam)) =>
          /\ NearUnit(view[1].f)
          /\ NearUnit(view[1].s)
          /\ NearUnit(view[1].u)
    /\ ctor = "default" => (NearUnit(cam.viewDirection) /\ NearUnit(cam.upVector))

\* getViewMatrix on an explicitly constructed camera whose stored facing is
\* not a unit vector, after a mouseLook on the same camera.
C6_Witness ==
    /\ last.op = "getViewMatrix"
    /\ last2.op = "mouseLook"
    /\ ctor = "explicit"
    /\ ~ NearUnit(last2.before.viewDirection)
    /\ Normalisable(last2.before.viewDirection)
    /\ ViewUsable(cam)
    /\ NearUnit(cam.viewDirection)

\* ------------------------------------------------------------ C7

\* C7: the frame budget is 1000/60 = 16 ms; the warning has been printed
\* exactly once if some tick so far measured a frame time strictly above the
\* budget and not at all otherwise, so it is printed on the first such tick
\* and on no later one; the pacing step that prints it leaves mQuit alone and
\* returns to the loop test; and a tick whose frame time reaches or exceeds
\* the budget is not delayed.
C7_WarnOnce ==
    /\ gFrameDuration = 16
    /\ warnings = (IF overran THEN 1 ELSE 0)
    /\ frameSafe = ~ overran
    /\ lastStep = "Pace" =>
          /\ pc = "while"
          /\ mQuit = pre.mQuit
          /\ frameTime >= gFrameDuration => delay = 0

\* A second tick overran after the warning had been printed: no new warning,
\* no delay.
C7_Witness ==
    /\ lastStep = "Pace"
    /\ tick >= 2
    /\ ~ pre.frameSafe
    /\ frameTime > gFrameDuration
    /\ warnings = 1
    /\ delay = 0

\* ------------------------------------------------------------ C8

IsEvent(m) == m \in {e.type : e \in EventInputs}

\* The tick in progress ran to its end: query, draw, present, pacing.
TickDone ==
    /\ Len(tickTrace) >= 4
    /\ SubSeq(tickTrace, Len(tickTrace) - 3, Len(tickTrace)) =
          <<"getViewMatrix", "draw", "present", "pace">>

\* What C8 says of every state and step: handling SDL_QUIT sets mQuit; mQuit
\* is never set back; no tick starts after the one that handled the quit;
\* the loop test finds mQuit set only at the end of a complete tick; and the
\* loop is left, and CleanUp reached, only after a quit was handled.
C8_Safety ==
    /\ []((lastStep = "PollEvent" /\ pre.event.type = "SDL_QUIT") => mQuit)
    /\ [][mQuit => mQuit']_vars
    /\ [](mQuit => (quitTick >= 1 /\ tick = quitTick))
    /\ []((mQuit /\ pc \in {"while", "CleanUp", "return"}) => TickDone)
    /\ [](pc \in {"CleanUp", "return"} => mQuit)
    /\ [](cleaned => pc = "return")

\* C8 as claimed: in addition, once mQuit is set the tick in progress is
\* finished and CleanUp runs.
C8_QuitEndsRun == C8_Safety /\ (mQuit ~> cleaned)

\* C8 amended: once mQuit is set, the tick in progress is finished and
\* CleanUp runs provided PreDraw finds the uniform uTransform; if it does not,
\* exit(1) ends the process in that tick's PreDraw, before Draw, the present,
\* the pacing and CleanUp.
C8_QuitEndsRunIfUniformFound ==
    /\ C8_Safety
    /\ (mQuit /\ uniformFound) ~> cleaned
    /\ (mQuit /\ ~ uniformFound) ~> (pc = "exit(1)")

\* CleanUp has run after a tick that handled SDL_QUIT, then another queued
\* event, then moved the camera for a held key.
C8_Witness ==
    /\ cleaned
    /\ \E i, j, k \in DOMAIN tickTrace :
          /\ i < j /\ j < k
          /\ tickTrace[i] = "SDL_QUIT"
          /\ IsEvent(tickTrace[j])
          /\ tickTrace[k] = "moveForward"

\* ------------------------------------------------------------ C9

\* The place of a call in a tick: events and their mouseLook calls, then the
\* four moves in the order W, S, A, D, then the query, the draw call, the
\* present and the pacing.
Rank(m) ==
    CASE m = "moveForward" -> 2
      [] m = "moveBackward" -> 3
      [] m = "moveLeft" -> 4
      [] m = "moveRight" -> 5
      [] m = "getViewMatrix" -> 6
      [] m = "draw" -> 7
      [] m = "present" -> 8
      [] m = "pace" -> 9
      [] OTHER -> 1

KeyOf(m) ==
    CASE m = "moveForward" -> "W"
      [] m = "moveBackward" -> "S"
      [] m = "moveLeft" -> "A"
      [] m = "moveRight" -> "D"

\* C9: within a tick every mouseLook comes before every move, the moves come
\* in the order W, S, A, D, at most one per key and only for a held key, and
\* all of them before the one getViewMatrix, which comes before the draw
\* call, then the present, then the pacing; the camera does not change from
\* the query to the end of the tick, and the matrix the draw call uses is the
\* view matrix of the camera as this tick's input left it.
C9_TickOrder ==
    /\ \A i, j \in DOMAIN tickTrace :
          i < j =>
             /\ Rank(tickTrace[i]) <= Rank(tickTrace[j])
             /\ Rank(tickTrace[i]) >= 2 => Rank(tickTrace[i]) < Rank(tickTrace[j])
    /\ \A i \in DOMAIN tickTrace :
          Rank(tickTrace[i]) \in 2..5 => KeyOf(tickTrace[i]) \in held
    /\ lastStep \in {"PreDraw", "Draw", "SwapWindow", "Pace"} => cam = pre.cam
    /\ lastStep = "Draw" => drawn = <<GetViewMatrix(cam)>>
    /\ lastStep = "Pace" => TickDone

\* A complete tick that turned the camera for a motion event and moved it
\* for all four keys.
C9_Witness ==
    /\ lastStep = "Pace"
    /\ \E i \in DOMAIN tickTrace : tickTrace[i] = "mouseLook"
    /\ \A m \in {"moveForward", "moveBackward", "moveLeft", "moveRight"} :
          \E i \in DOMAIN tickTrace : tickTrace[i] = m
    /\ drawn = <<GetViewMatrix(cam)>>
    /\ cam.viewDirection # CameraDefault.viewDirection

\* ------------------------------------------------------------ C10

EscapeDown(e) == e.type = "SDL_KEYDOWN" /\ e.sym = "SDLK_ESCAPE"

\* C10: the capture is on when the first tick starts; an Escape key-down event
\* flips it and no other step of the loop changes it; a motion event turns
\* the camera, by mouseLook(xrel, yrel), exactly if the capture is on when the
\* event is handled, and no other event changes the camera; and the held keys
\* move the camera whatever the capture.
C10_CaptureGating ==
    /\ lastStep = "EnterMainLoop" => relMode
    /\ (lastStep = "LoopEnter" /\ tick = 1) => relMode
    /\ (lastStep = "PollEvent" /\ EscapeDown(pre.event)) => relMode = ~ pre.relMode
    /\ (/\ lastStep # "EnterMainLoop"
        /\ ~ (lastStep = "PollEvent" /\ EscapeDown(pre.event))) =>
          relMode = pre.relMode
    /\ lastStep = "PollEvent" =>
          cam = (IF pre.event.type = "SDL_MOUSEMOTION" /\ pre.relMode
                 THEN MouseLook(pre.cam, pre.event.xrel, pre.event.yrel)
                 ELSE pre.cam)
    /\ lastStep = "HeldKeys" => cam = CallMoves(pre.cam, KeyCalls(held))

\* In one tick an Escape key-down turned the capture off and the motion event
\* queued behind it left the camera alone.
C10_Witness ==
    /\ lastStep = "PollEvent"
    /\ pre.event.type = "SDL_MOUSEMOTION"
    /\ ~ pre.relMode
    /\ tickTrace = <<"SDL_KEYDOWN", "SDL_MOUSEMOTION">>
    /\ cam = pre.cam

=============================================================================
